---- MODULE Spec2Model ----
(***************************************************************************)
(* Model of the epoll reactor of the TreeFrog framework (src/src/tepoll.cpp)*)
(* and of the WebSocket frame worker (src/src/twebsocketworker.cpp).        *)
(*                                                                         *)
(* The reactor thread owns the epoll interest list (epollSet), the         *)
(* registry pollingSockets and the socket objects; worker threads only     *)
(* append TSendData records to sendRequests.  Every TEpoll method is one   *)
(* action: the methods are called by the reactor thread alone, and the     *)
(* only structure shared with the workers, sendRequests, is read by        *)
(* dispatchSendData in a single atomic dequeue().                          *)
(***************************************************************************)
EXTENDS Integers, Sequences, FiniteSets

\* ---------------------------------------------------------------- bounds
MaxSockets == 2    \* socket objects ever constructed
MaxFd      == 2    \* descriptors the kernel hands out: 1..MaxFd
MaxEnqueue == 3    \* TSendData records the worker threads enqueue in one run
MaxWorkers == 1    \* WebSocket frame workers in flight
MaxPayload == 1    \* items an endpoint callback puts on payloadList

\* ------------------------------------------------------------- constants
NULL == 0          \* the null TEpollSocket pointer / descriptor 0

SocketIds == 1 .. MaxSockets
Fds       == 1 .. MaxFd

\* epoll event masks, as sets of flags
EvNone  == {}
EvIn    == {"EPOLLIN", "EPOLLET"}
EvInOut == {"EPOLLIN", "EPOLLOUT", "EPOLLET"}

\* TSendBuffer objects: <<kind, n>>, n the serial number of the enqueue that
\* built the buffer (every buffer is a distinct heap object)
Handshake(ws) == <<"handshake", ws>>  \* createSendBuffer(ws->handshakeResponse())
NoBuffer      == <<"null", 0>>        \* TSendData::buffer == 0
\* value of the session cookie of a request header: none, the id of a stored
\* session, the id of a session the store no longer has
Cookies        == {"", "sid", "gone"}
StoredSessions == {"sid"}

VARIABLES
    epollFd,         \* what epoll_create returned to the constructor
    sockets,         \* socket id -> [st, sd, mode, sendBuf] (the TEpollSocket objects)
    openFds,         \* descriptors open in the kernel
    epollSet,        \* the interest list of epollFd: records [fd, ptr, events]
    pollingSockets,  \* QMap<QByteArray, TEpollSocket*>: set of <<uuid, ptr>>
    sendRequests,    \* queue of TSendData
    heap,            \* TSendBuffer objects created and not deleted
    workers,         \* WebSocket frame workers in flight
    events,          \* the epoll_event array filled by the last wait()
    numEvents,
    eventIterator,
    crashed,         \* the process died on a null dereference
    enqueued,        \* TSendData records enqueued so far
    last,            \* the last call: its name, return value, errno and argument
    yielded,         \* the connections next() returned since the last wait()
    trace            \* whether last and yielded are kept (they are not part
                     \* of the program)

vars == << epollFd, sockets, openFds, epollSet, pollingSockets, sendRequests, heap,
           workers, events, numEvents, eventIterator, crashed, enqueued, last, yielded, trace >>

\* ------------------------------------------------------------------ QMap
MapContains(m, k) == \E e \in m : e[1] = k
MapValue(m, k)    == IF MapContains(m, k) THEN (CHOOSE e \in m : e[1] = k)[2] ELSE NULL
MapRemove(m, k)   == { e \in m : e[1] # k }
MapRemoveCount(m, k) == Cardinality({ e \in m : e[1] = k })
\* QMap::insertMulti in place of insert: an entry of the key is not replaced
MapInsert_multi(m, k, v) == m \cup { <<k, v>> }
MapInsert(m, k, v)   == MapRemove(m, k) \cup { <<k, v>> }
\* QMap::operator[] (non-const): a missing key is inserted with a default value
MapIndex(m, k)    == IF MapContains(m, k) THEN m ELSE m \cup { <<k, NULL>> }

\* --------------------------------------------------------------- sockets
socketUuid(s) == <<"uuid", s>>

Unborn == [st |-> "unborn", sd |-> 0, mode |-> "http", sendBuf |-> <<>>]

Born      == { s \in SocketIds : sockets[s].st # "unborn" }
LiveSocks == { s \in SocketIds : sockets[s].st = "live" }
Uuids     == { socketUuid(s) : s \in Born }

Min(S) == CHOOSE x \in S : \A y \in S : x <= y

\* ---------------------------------------------------------- the kernel
\* what epoll_create(1) returns: -1, or the descriptor of a new epoll instance
EpollCreate == {-1, MaxFd + 1}

\* epoll_ctl(efd, op, fd, &ev) on the interest list ep, with the open
\* descriptors fds.  Descriptor 0 is never one of the sockets' descriptors.
EpollCtl(efd, ep, fds, op, fd, ptr, ev) ==
    LET has == \E e \in ep : e.fd = fd
        rest == { e \in ep : e.fd # fd }
        new == [fd |-> fd, ptr |-> ptr, events |-> ev]
    IN  IF efd < 0 \/ fd \notin fds THEN [ret |-> -1, err |-> "EBADF", ep |-> ep]
        ELSE CASE op = "ADD" ->
                    IF has THEN [ret |-> -1, err |-> "EEXIST", ep |-> ep]
                    ELSE [ret |-> 0, err |-> "", ep |-> ep \cup {new}]
               [] op = "MOD" ->
                    IF ~has THEN [ret |-> -1, err |-> "ENOENT", ep |-> ep]
                    ELSE [ret |-> 0, err |-> "", ep |-> rest \cup {new}]
               [] op = "DEL" ->
                    IF ~has THEN [ret |-> -1, err |-> "ENOENT", ep |-> ep]
                    ELSE [ret |-> 0, err |-> "", ep |-> rest]

\* close(fd): the kernel drops the descriptor from every interest list
KernelClose(R, fd) ==
    [R EXCEPT !.fds = @ \ {fd}, !.ep = { e \in @ : e.fd # fd }]

\* ------------------------------------------- the reactor's working state
\* R gathers what one TEpoll method reads and writes; ret and err record
\* the return value and the errno of the last call.
Reactor ==
    [ efd |-> epollFd, ps |-> pollingSockets, ep |-> epollSet, fds |-> openFds, sk |-> sockets,
      hp |-> heap, wk |-> workers, ok |-> TRUE, ret |-> TRUE, err |-> "" ]

\* ------------------------------------------- TEpollSocket (tepollsocket.h)
EnqueueSendData(R, s, buf) ==
    [R EXCEPT !.sk[s].sendBuf = Append(@, buf)]

\* TEpollSocket::createSendBuffer: buf is a new TSendBuffer
CreateSendBuffer(R, buf) == [R EXCEPT !.hp = @ \cup {buf}]

SocketClose(R, s) ==
    IF R.sk[s].sd > 0
    THEN [KernelClose(R, R.sk[s].sd) EXCEPT !.sk[s].sd = 0]
    ELSE R

\* the descriptor left in the old object
SetSocketDescriptor_keep(R, s, fd) == R

SetSocketDescriptor(R, s, fd) == [R EXCEPT !.sk[s].sd = fd]

\* delete sock in place of sock->deleteLater()
DeleteLater_now(R, s) == [R EXCEPT !.sk[s].st = "destroyed"]

DeleteLater(R, s) == [R EXCEPT !.sk[s].st = "retired"]

\* ----------------------------------------------------------------- TEpoll
addPoll(R, socket, ev) ==
    IF ev = EvNone THEN [R EXCEPT !.ret = FALSE, !.err = ""]
    ELSE LET c == EpollCtl(R.efd, R.ep, R.fds, "ADD", R.sk[socket].sd, socket, ev)
         IN  IF c.ret < 0
             THEN [R EXCEPT !.ret = FALSE, !.err = c.err]
             ELSE [R EXCEPT !.ep = c.ep,
                            !.ps = MapInsert(@, socketUuid(socket), socket),
                            !.ret = TRUE, !.err = ""]

\* EPOLL_CTL_ADD in place of EPOLL_CTL_MOD
modifyPoll_add(R, socket, ev) ==
    IF ev = EvNone THEN [R EXCEPT !.ret = FALSE, !.err = ""]
    ELSE LET c == EpollCtl(R.efd, R.ep, R.fds, "ADD", R.sk[socket].sd, socket, ev)
         IN  [R EXCEPT !.ep = c.ep, !.ret = (c.ret = 0), !.err = c.err]

modifyPoll(R, socket, ev) ==
    IF ev = EvNone THEN [R EXCEPT !.ret = FALSE, !.err = ""]
    ELSE LET c == EpollCtl(R.efd, R.ep, R.fds, "MOD", R.sk[socket].sd, socket, ev)
         IN  [R EXCEPT !.ep = c.ep, !.ret = (c.ret = 0), !.err = c.err]

deletePoll(R, socket) ==
    IF MapRemoveCount(R.ps, socketUuid(socket)) = 0
    THEN [R EXCEPT !.ret = FALSE, !.err = "not registered"]
    ELSE LET c == EpollCtl(R.efd, R.ep, R.fds, "DEL", R.sk[socket].sd, NULL, EvNone)
         IN  [R EXCEPT !.ps = MapRemove(@, socketUuid(socket)),
                       !.ep = c.ep, !.ret = (c.ret = 0), !.err = c.err]

\* TSessionManager::findSession(sessionId): the stored session of that id, or
\* a TSession() with an empty id
findSession(sessionId) == IF sessionId \in StoredSessions THEN sessionId ELSE ""

\* a TWebSocketWorker as its constructors leave it: the first one sets the
\* session and opcode Continuation, the second one the opcode and no session
TWebSocketWorker(uuid, opcode, session) ==
    [uuid |-> uuid, opcode |-> opcode, session |-> session]

\* TEpollWebSocket::startWorkerForOpening(session): a TWebSocketWorker built
\* by the first constructor (opcode Continuation) is started
StartWorkerForOpening(R, ws, session) ==
    [R EXCEPT !.wk = @ \cup { TWebSocketWorker(socketUuid(ws), "Continuation", session) }]

\* new TEpollWebSocket(sock->socketDescriptor(), ...): the next socket object
NewSocketId(R) == Min({ s \in SocketIds : R.sk[s].st = "unborn" })

\* the old socket closed (sock->close()) instead of giving up its descriptor
SwitchToWebSocket_closing(R, sock, sd) ==
    IF \A s \in SocketIds : R.sk[s].st # "unborn" THEN [R EXCEPT !.ok = FALSE]
    ELSE
    LET ws == NewSocketId(R)
        R1 == [R EXCEPT !.sk[ws] = [st |-> "live", sd |-> R.sk[sock].sd,
                                    mode |-> "ws", sendBuf |-> <<>>]]
        R2 == deletePoll(R1, sock)
        R3 == SocketClose(R2, sock)
        R4 == DeleteLater(R3, sock)
        R5 == EnqueueSendData(CreateSendBuffer(R4, Handshake(ws)), ws, Handshake(ws))
        R6 == addPoll(R5, ws, EvInOut)
        sessionId == sd.header
        session == IF sessionId # "" THEN findSession(sessionId) ELSE ""
    IN  StartWorkerForOpening(R6, ws, session)

\* the upgrade done on the socket object itself: it stays registered under
\* its UUID and turns into a WebSocket connection
SwitchToWebSocket_inplace(R, sock, sd) ==
    LET R1 == [R EXCEPT !.sk[sock].mode = "ws"]
        R2 == EnqueueSendData(CreateSendBuffer(R1, Handshake(sock)), sock, Handshake(sock))
        R3 == modifyPoll(R2, sock, EvInOut)
        sessionId == sd.header
        session == IF sessionId # "" THEN findSession(sessionId) ELSE ""
    IN  StartWorkerForOpening(R3, sock, session)

SwitchToWebSocket(R, sock, sd) ==
    IF \A s \in SocketIds : R.sk[s].st # "unborn" THEN [R EXCEPT !.ok = FALSE]
    ELSE
    LET ws == NewSocketId(R)
        R1 == [R EXCEPT !.sk[ws] = [st |-> "live", sd |-> R.sk[sock].sd,
                                    mode |-> "ws", sendBuf |-> <<>>]]
        R2 == deletePoll(R1, sock)
        R3 == SetSocketDescriptor(R2, sock, 0)
        R4 == DeleteLater(R3, sock)
        R5 == EnqueueSendData(CreateSendBuffer(R4, Handshake(ws)), ws, Handshake(ws))
        R6 == addPoll(R5, ws, EvInOut)
        sessionId == sd.header
        session == IF sessionId # "" THEN findSession(sessionId) ELSE ""
    IN  StartWorkerForOpening(R6, ws, session)

\* the body of the loop of dispatchSendData for one TSendData
ApplySendData(R, sd) ==
    LET sock == MapValue(R.ps, sd.uuid)
        R0 == [R EXCEPT !.ps = MapIndex(@, sd.uuid)]
    IN  IF sock # NULL /\ R.sk[sock].sd > 0
        THEN CASE sd.method = "Send" ->
                    modifyPoll(EnqueueSendData(R0, sock, sd.buffer), sock, EvInOut)
               [] sd.method = "Disconnect" ->
                    DeleteLater(SocketClose(deletePoll(R0, sock), sock), sock)
               [] sd.method = "SwitchToWebSocket" ->
                    SwitchToWebSocket(R0, sock, sd)
               [] OTHER -> [R0 EXCEPT !.hp = @ \ {sd.buffer}]
        ELSE R0

RECURSIVE ApplyAll(_, _)
ApplyAll(R, dataList) ==
    IF dataList = <<>> THEN R
    ELSE ApplyAll(ApplySendData(R, Head(dataList)), Tail(dataList))

\* the list walked from its tail (toBack / previous)
RECURSIVE ApplyAllBackwards(_, _)
ApplyAllBackwards(R, dataList) ==
    IF dataList = <<>> THEN R
    ELSE ApplyAllBackwards(ApplySendData(R, dataList[Len(dataList)]),
                           SubSeq(dataList, 1, Len(dataList) - 1))

dispatchSendData_backwards(R, dataList) == ApplyAllBackwards(R, dataList)

dispatchSendData(R, dataList) == ApplyAll(R, dataList)

\* pollingSockets.clear() left out
releaseAllPollingSockets_noclear(R) ==
    [R EXCEPT !.sk = [s \in SocketIds |->
                        IF \E e \in R.ps : e[2] = s
                        THEN [R.sk[s] EXCEPT !.st = "retired"] ELSE R.sk[s]]]

\* releaseAllPollingSockets, the entries with a null pointer left aside
releaseAllPollingSockets(R) ==
    [R EXCEPT !.sk = [s \in SocketIds |->
                        IF \E e \in R.ps : e[2] = s
                        THEN [R.sk[s] EXCEPT !.st = "retired"] ELSE R.sk[s]],
              !.ps = {}]

\* ------------------------------------------------------------ bookkeeping
\* cb and out are the callbacks a frame worker invoked and the payloadList
\* it then sent; out of a dispatchSendData is the list it dequeued
Note(op, ret, err, sock, cb) ==
    [op |-> op, ret |-> ret, err |-> err, sock |-> sock, cb |-> cb, out |-> <<>>]

Record(note) ==
    /\ last' = IF trace THEN note ELSE last
    /\ yielded' = IF ~trace THEN yielded
                  ELSE IF note.op = "wait" THEN <<>>
                  ELSE IF note.op = "next" /\ note.sock # NULL
                       THEN Append(yielded, note.sock)
                  ELSE yielded
    /\ UNCHANGED << trace, epollFd >>

\* the reactor's state after a TEpoll method that ended in R
Commit(R, op, sock) ==
    /\ R.ok
    /\ pollingSockets' = R.ps
    /\ epollSet' = R.ep
    /\ openFds' = R.fds
    /\ sockets' = R.sk
    /\ workers' = R.wk
    /\ heap' = R.hp
    /\ Record(IF sock = NULL
               THEN [Note(op, TRUE, "", NULL, <<>>) EXCEPT
                        !.out = IF op = "dispatchSendData" THEN sendRequests ELSE <<>>]
               ELSE Note(op, R.ret, R.err, sock, <<>>))

Init ==
    /\ epollFd = MaxFd + 1
    /\ sockets = [s \in SocketIds |-> Unborn]
    /\ openFds = {}
    /\ epollSet = {}
    /\ pollingSockets = {}
    /\ sendRequests = <<>>
    /\ heap = {}
    /\ workers = {}
    /\ events = <<>>
    /\ numEvents = 0
    /\ eventIterator = 0
    /\ crashed = FALSE
    /\ enqueued = 0
    /\ last = Note("init", TRUE, "", NULL, <<>>)
    /\ yielded = <<>>
    /\ trace = FALSE

InitRet ==
    /\ epollFd = MaxFd + 1
    /\ sockets = [s \in SocketIds |-> Unborn]
    /\ openFds = {}
    /\ epollSet = {}
    /\ pollingSockets = {}
    /\ sendRequests = <<>>
    /\ heap = {}
    /\ workers = {}
    /\ events = <<>>
    /\ numEvents = 0
    /\ eventIterator = 0
    /\ crashed = FALSE
    /\ enqueued = 0
    /\ last = Note("init", TRUE, "", NULL, <<>>)
    /\ yielded = <<>>
    /\ trace = TRUE

\* TEpoll::TEpoll() with either outcome of epoll_create: a failure is logged
\* and the object is built all the same
InitCtor ==
    /\ epollFd \in EpollCreate
    /\ sockets = [s \in SocketIds |-> Unborn]
    /\ openFds = {}
    /\ epollSet = {}
    /\ pollingSockets = {}
    /\ sendRequests = <<>>
    /\ heap = {}
    /\ workers = {}
    /\ events = <<>>
    /\ numEvents = 0
    /\ eventIterator = 0
    /\ crashed = FALSE
    /\ enqueued = 0
    /\ last = Note("init", TRUE, "", NULL, <<>>)
    /\ yielded = <<>>
    /\ trace = TRUE

\* --------------------------------------------------- the reactor's calls
\* a connection is accepted: a TEpollHttpSocket is built on the lowest free
\* descriptor and added with addPoll(sock, EPOLLIN | EPOLLET)
Accept ==
    /\ ~crashed
    /\ \E s \in SocketIds : sockets[s].st = "unborn"
    /\ Fds \ openFds # {}
    /\ LET s == NewSocketId(Reactor)
           fd == Min(Fds \ openFds)
           R1 == [Reactor EXCEPT !.sk[s] = [st |-> "live", sd |-> fd,
                                            mode |-> "http", sendBuf |-> <<>>],
                                 !.fds = @ \cup {fd}]
       IN  Commit(addPoll(R1, s, EvIn), "addPoll", s)
    /\ UNCHANGED << sendRequests, events, numEvents, eventIterator, crashed, enqueued >>

AddPoll ==
    /\ ~crashed
    /\ \E s \in LiveSocks, ev \in {EvNone, EvIn, EvInOut} :
          Commit(addPoll(Reactor, s, ev), "addPoll", s)
    /\ UNCHANGED << sendRequests, events, numEvents, eventIterator, crashed, enqueued >>

DeletePoll ==
    /\ ~crashed
    /\ \E s \in SocketIds :
          /\ sockets[s].st \in {"live", "retired"}
          /\ Commit(deletePoll(Reactor, s), "deletePoll", s)
    /\ UNCHANGED << sendRequests, events, numEvents, eventIterator, crashed, enqueued >>

DispatchSendData ==
    /\ ~crashed
    /\ Commit(dispatchSendData(Reactor, sendRequests), "dispatchSendData", NULL)
    /\ sendRequests' = <<>>
    /\ UNCHANGED << events, numEvents, eventIterator, crashed, enqueued >>

\* it.value()->deleteLater() on a null entry is undefined: the process dies
\* or the call goes through
ReleaseAll ==
    /\ ~crashed
    /\ \/ /\ Commit(releaseAllPollingSockets(Reactor), "releaseAllPollingSockets", NULL)
          /\ UNCHANGED crashed
       \/ /\ \E e \in pollingSockets : e[2] = NULL
          /\ crashed' = TRUE
          /\ Record(Note("releaseAllPollingSockets", FALSE, "SIGSEGV", NULL, <<>>))
          /\ UNCHANGED << sockets, openFds, epollSet, pollingSockets, workers, heap >>
    /\ UNCHANGED << sendRequests, events, numEvents, eventIterator, enqueued >>

\* ------------------------------------------------- the worker threads' calls
Enqueue(sd) ==
    /\ ~crashed
    /\ enqueued < MaxEnqueue
    /\ enqueued' = enqueued + 1
    /\ sendRequests' = Append(sendRequests, sd)

TSendData(m, u, buf, h) == [method |-> m, uuid |-> u, buffer |-> buf, header |-> h]

createSendBuffer(kind)           == <<kind, enqueued + 1>>
setSendData(uuid, kind) ==
    /\ Enqueue(TSendData("Send", uuid, createSendBuffer(kind), ""))
    /\ heap' = heap \cup {createSendBuffer(kind)}
setDisconnect(uuid) ==
    /\ Enqueue(TSendData("Disconnect", uuid, NoBuffer, ""))
    /\ UNCHANGED heap
setSwitchToWebSocket(uuid, hdr) ==
    /\ Enqueue(TSendData("SwitchToWebSocket", uuid, NoBuffer, hdr))
    /\ UNCHANGED heap

WorkerNote(op) == Record(Note(op, TRUE, "", NULL, <<>>))

\* a request worker (TActionWorker) hands over its outcome
SetSendData ==
    /\ \E u \in Uuids : setSendData(u, "data")
    /\ WorkerNote("enqueue")
    /\ UNCHANGED << sockets, openFds, epollSet, pollingSockets, workers,
                    events, numEvents, eventIterator, crashed >>

SetDisconnect ==
    /\ \E u \in Uuids : setDisconnect(u)
    /\ WorkerNote("enqueue")
    /\ UNCHANGED << sockets, openFds, epollSet, pollingSockets, workers,
                    events, numEvents, eventIterator, crashed >>

\* the request worker of an HTTP connection asks for the upgrade
SetSwitchToWebSocket ==
    /\ \E s \in Born, h \in Cookies :
          /\ sockets[s].mode = "http"
          /\ setSwitchToWebSocket(socketUuid(s), h)
    /\ WorkerNote("enqueue")
    /\ UNCHANGED << sockets, openFds, epollSet, pollingSockets, workers,
                    events, numEvents, eventIterator, crashed >>

\* ~TEpollSocket() once the deferred delete is delivered: the reactor is
\* between two batches of events; the destructor closes the descriptor it
\* still holds and frees the outgoing buffer
DeferredDelete ==
    /\ ~crashed
    /\ eventIterator >= numEvents
    /\ \E s \in SocketIds :
          /\ sockets[s].st = "retired"
          /\ LET R1 == SocketClose(Reactor, s)
                 chunks == { sockets[s].sendBuf[i] : i \in 1 .. Len(sockets[s].sendBuf) }
             IN  Commit([R1 EXCEPT !.sk[s].st = "destroyed", !.sk[s].sendBuf = <<>>,
                                   !.hp = @ \ chunks],
                        "delete", NULL)
    /\ UNCHANGED << sendRequests, events, numEvents, eventIterator, crashed, enqueued >>

\* ------------------------------------------------------------ wait / next
MaxEvents == 128

ReadyFlags(e) == (SUBSET (e.events \cap {"EPOLLIN", "EPOLLOUT"})) \ {{}}

\* what epoll_wait may put in the array: ready entries of the interest list,
\* each once, in any order
RECURSIVE Batches(_)
Batches(E) ==
    {<<>>} \cup UNION { { <<[ptr |-> e.ptr, events |-> fl]>> \o b : b \in Batches(E \ {e}) }
                        : <<e, fl>> \in { <<e, fl>> \in E \X SUBSET {"EPOLLIN", "EPOLLOUT"} :
                                          fl \in ReadyFlags(e) } }

\* wait(timeout).  Only events[0 .. numEvents-1] is ever read (next, canReceive
\* and canSend stay below numEvents), so the array is kept as that prefix.
Wait ==
    /\ ~crashed
    /\ \E n \in {-1, 0} \cup { Len(b) : b \in Batches(epollSet) } :
          /\ epollFd < 0 => n = -1
          /\ n <= MaxEvents
          /\ numEvents' = n
          /\ events' \in IF n <= 0 THEN {<<>>}
                         ELSE { b \in Batches(epollSet) : Len(b) = n }
          /\ Record(Note("wait", n >= 0, IF n >= 0 THEN "" ELSE IF epollFd < 0 THEN "EBADF" ELSE "EINTR", NULL, <<>>))
    /\ eventIterator' = 0
    /\ UNCHANGED << sockets, openFds, epollSet, pollingSockets, sendRequests, heap,
                    workers, crashed, enqueued >>

\* the array walked from its last event
next_backwards ==
    IF eventIterator < numEvents THEN events[numEvents - eventIterator].ptr ELSE NULL

next == IF eventIterator < numEvents THEN events[eventIterator + 1].ptr ELSE NULL

canReceive ==
    IF eventIterator <= 0 THEN FALSE ELSE "EPOLLIN" \in events[eventIterator].events

canSend ==
    IF eventIterator <= 0 THEN FALSE ELSE "EPOLLOUT" \in events[eventIterator].events

NextEvent ==
    /\ ~crashed
    /\ eventIterator' = IF eventIterator < numEvents THEN eventIterator + 1
                        ELSE eventIterator
    /\ Record(Note("next", next # NULL, "", next, <<>>))
    /\ UNCHANGED << sockets, openFds, epollSet, pollingSockets, sendRequests, heap,
                    workers, events, numEvents, crashed, enqueued >>

\* ------------------------------------------------------------ recv / send
FrameOpcodes ==
    {"Continuation", "TextFrame", "BinaryFrame", "Close", "Ping", "Pong", "Reserved"}

\* recv(socket) on a WebSocket connection: a frame is decoded and a
\* TWebSocketWorker is started for it (second constructor)
Recv ==
    /\ ~crashed
    /\ \E s \in LiveSocks, op \in FrameOpcodes :
          /\ sockets[s].mode = "ws"
          /\ sockets[s].sd > 0
          /\ Cardinality(workers) < MaxWorkers
          /\ TWebSocketWorker(socketUuid(s), op, "") \notin workers
          /\ workers' = workers \cup { TWebSocketWorker(socketUuid(s), op, "") }
          /\ Record(Note("recv", TRUE, "", s, <<>>))
    /\ UNCHANGED << sockets, openFds, epollSet, pollingSockets, sendRequests, heap,
                    events, numEvents, eventIterator, crashed, enqueued >>

\* send(socket): the first chunk of the outgoing buffer is written
Send ==
    /\ ~crashed
    /\ \E s \in LiveSocks :
          /\ sockets[s].sd > 0
          /\ sockets[s].sendBuf # <<>>
          /\ sockets' = [sockets EXCEPT ![s].sendBuf = Tail(@)]
          /\ heap' = heap \ {Head(sockets[s].sendBuf)}
          /\ Record(Note("send", TRUE, "", s, <<>>))
    /\ UNCHANGED << openFds, epollSet, pollingSockets, sendRequests, workers,
                    events, numEvents, eventIterator, crashed, enqueued >>

\* ------------------------------------------------- TWebSocketWorker::run
\* what a callback may leave on endpoint->payloadList (QVariant types)
PayloadItems ==
    {"String", "ByteArray", "Int:Close", "Int:Ping", "Int:Pong", "Int:Other", "Other"}

PayloadLists[n \in Nat] ==
    IF n = 0 THEN {<<>>}
    ELSE PayloadLists[n - 1] \cup
         { Append(l, x) : l \in PayloadLists[n - 1], x \in PayloadItems }

\* the default label missing: an unknown opcode runs into the Close case
Callbacks_fallthrough(w) ==
    CASE w.opcode = "Continuation" ->
              IF w.session = "" THEN <<"onOpen">> ELSE <<>>
      [] w.opcode = "TextFrame"   -> <<"onTextReceived">>
      [] w.opcode = "BinaryFrame" -> <<"onBinaryReceived">>
      [] w.opcode = "Ping"        -> <<"onPing", "sendPong">>
      [] w.opcode = "Pong"        -> <<"onPong">>
      [] OTHER                    -> <<"onClose", "closeWebSocket">>

\* the switch on opcode: the callbacks it invokes
Callbacks(w) ==
    CASE w.opcode = "Continuation" ->
              IF w.session = "" THEN <<"onOpen">> ELSE <<>>
      [] w.opcode = "TextFrame"   -> <<"onTextReceived">>
      [] w.opcode = "BinaryFrame" -> <<"onBinaryReceived">>
      [] w.opcode = "Close"       -> <<"onClose", "closeWebSocket">>
      [] w.opcode = "Ping"        -> <<"onPing", "sendPong">>
      [] w.opcode = "Pong"        -> <<"onPong">>
      [] OTHER                    -> <<>>

\* payloadList after the switch: what the user callback put there (out),
\* then the directive closeWebSocket() or sendPong() adds
PayloadAfter(cb, out) ==
    IF cb = <<>> THEN <<>>
    ELSE CASE cb[Len(cb)] = "closeWebSocket" -> Append(out, "Int:Close")
           [] cb[Len(cb)] = "sendPong"       -> Append(out, "Int:Pong")
           [] OTHER                          -> out

\* payloadList walked from its tail
RECURSIVE SendPayload_backwards(_, _, _)
SendPayload_backwards(uuid, list, n) ==
    IF list = <<>> THEN <<>>
    ELSE LET var == list[Len(list)]
             rest == SubSeq(list, 1, Len(list) - 1)
             frame(kind) == <<TSendData("Send", uuid, <<kind, n + 1>>, "")>>
                                \o SendPayload_backwards(uuid, rest, n + 1)
         IN  CASE var = "String"    -> frame("text")
               [] var = "ByteArray" -> frame("binary")
               [] var = "Int:Close" ->
                     <<TSendData("Disconnect", uuid, NoBuffer, "")>>
                         \o SendPayload_backwards(uuid, rest, n + 1)
               [] var = "Int:Ping"  -> frame("ping")
               [] var = "Int:Pong"  -> frame("pong")
               [] OTHER             -> SendPayload_backwards(uuid, rest, n)

\* the loop "Sends payload": the TSendData each item enqueues, n records
\* having been enqueued before
RECURSIVE SendPayload(_, _, _)
SendPayload(uuid, list, n) ==
    IF list = <<>> THEN <<>>
    ELSE LET var == Head(list)
             frame(kind) == <<TSendData("Send", uuid, <<kind, n + 1>>, "")>>
                                \o SendPayload(uuid, Tail(list), n + 1)
         IN  CASE var = "String"    -> frame("text")
               [] var = "ByteArray" -> frame("binary")
               [] var = "Int:Close" ->
                     <<TSendData("Disconnect", uuid, NoBuffer, "")>>
                         \o SendPayload(uuid, Tail(list), n + 1)
               [] var = "Int:Ping"  -> frame("ping")
               [] var = "Int:Pong"  -> frame("pong")
               [] OTHER             -> SendPayload(uuid, Tail(list), n)

\* run() of worker w: endpoint tells whether the dispatcher found the
\* endpoint, out is what the user callback leaves on payloadList
run(w, endpoint, out) ==
    LET cb == IF endpoint THEN Callbacks(w) ELSE <<>>
        payloadList == PayloadAfter(cb, out)
        sent == SendPayload(w.uuid, payloadList, enqueued)
    IN  [cb |-> cb, payloadList |-> payloadList, sent |-> sent]

\* a worker that takes its connection out of the registry itself when the
\* endpoint asks to close, instead of queueing the Disconnect
WorkerRun_unregisters ==
    /\ ~crashed
    /\ \E w \in workers, endpoint \in BOOLEAN, out \in PayloadLists[MaxPayload] :
          LET r == run(w, endpoint, out)
              closing == \E i \in 1 .. Len(r.sent) : r.sent[i].method = "Disconnect"
              rest == SelectSeq(r.sent, LAMBDA d : d.method # "Disconnect")
          IN  /\ (~endpoint \/ r.cb = <<>>) => out = <<>>
              /\ enqueued + Len(r.sent) <= MaxEnqueue
              /\ enqueued' = enqueued + Len(r.sent)
              /\ heap' = heap \cup { r.sent[i].buffer : i \in { j \in 1 .. Len(r.sent) :
                                                               r.sent[j].method = "Send" } }
              /\ sendRequests' = sendRequests \o rest
              /\ pollingSockets' = IF closing THEN MapRemove(pollingSockets, w.uuid)
                                   ELSE pollingSockets
              /\ workers' = workers \ {w}
              /\ Record([Note("run", endpoint, "", w, r.cb) EXCEPT !.out = r.payloadList])
    /\ UNCHANGED << sockets, openFds, epollSet,
                    events, numEvents, eventIterator, crashed >>

WorkerRun ==
    /\ ~crashed
    /\ \E w \in workers, endpoint \in BOOLEAN, out \in PayloadLists[MaxPayload] :
          LET r == run(w, endpoint, out)
          IN  /\ (~endpoint \/ r.cb = <<>>) => out = <<>>
              /\ enqueued + Len(r.sent) <= MaxEnqueue
              /\ enqueued' = enqueued + Len(r.sent)
              /\ heap' = heap \cup { r.sent[i].buffer : i \in { j \in 1 .. Len(r.sent) :
                                                               r.sent[j].method = "Send" } }
              /\ sendRequests' = sendRequests \o r.sent
              /\ workers' = workers \ {w}
              /\ Record([Note("run", endpoint, "", w, r.cb) EXCEPT !.out = r.payloadList])
    /\ UNCHANGED << sockets, openFds, epollSet, pollingSockets,
                    events, numEvents, eventIterator, crashed >>

\* ---------------------------------------------------------- specifications
Next ==
    \/ Accept
    \/ AddPoll
    \/ DeletePoll
    \/ DispatchSendData
    \/ ReleaseAll
    \/ DeferredDelete
    \/ SetSendData
    \/ SetDisconnect
    \/ SetSwitchToWebSocket

Spec == Init /\ [][Next]_vars

\* the same calls, with the return values recorded in last
SpecRet == InitRet /\ [][Next]_vars

\* the reactor's event loop: batches of ready events between the calls
NextPoll ==
    \/ Accept
    \/ SetSendData
    \/ SetDisconnect
    \/ DispatchSendData
    \/ ReleaseAll
    \/ DeferredDelete
    \/ Wait
    \/ NextEvent
    \/ Send

SpecPoll == Init /\ [][NextPoll]_vars

\* the WebSocket side: upgrades, frames received and the frame workers
NextWS ==
    \/ Accept
    \/ SetSendData
    \/ SetDisconnect
    \/ SetSwitchToWebSocket
    \/ DispatchSendData
    \/ DeferredDelete
    \/ Recv
    \/ WorkerRun

SpecWS == InitRet /\ [][NextWS]_vars

\* the reactor from its construction on, epoll_create failing or not
NextCtor ==
    \/ Accept
    \/ DeletePoll
    \/ SetSendData
    \/ SetDisconnect
    \/ DispatchSendData
    \/ Wait
    \/ NextEvent

SpecCtor == InitCtor /\ [][NextCtor]_vars

\* ------------------------------------------------------------- properties
Registered(s)  == <<socketUuid(s), s>> \in pollingSockets
Registered1(s) == <<socketUuid(s), s>> \in pollingSockets'

\* the queued actions of one UUID, in queue order
ForUuid(q, u) == SelectSeq(q, LAMBDA d : d.uuid = u)

\* index of the first action of q that ends the connection (Disconnect or
\* SwitchToWebSocket), Len(q) + 1 if there is none
FirstEnd(q) ==
    IF \E i \in 1 .. Len(q) : q[i].method # "Send"
    THEN Min({ i \in 1 .. Len(q) : q[i].method # "Send" })
    ELSE Len(q) + 1

SendsBefore(q) == [i \in 1 .. (FirstEnd(q) - 1) |-> q[i].buffer]

\* C1: the actions of one UUID are applied in the order they were enqueued.
\* An enqueue appends at the tail of sendRequests, and dispatchSendData
\* leaves every registered connection as the queue's actions for its UUID,
\* taken in queue order, leave it: the buffers of the Sends before the first
\* Disconnect or SwitchToWebSocket appended in order, then the connection
\* closed or handed over, and nothing of what was queued behind that applied.
C1_EnqueueOrder ==
    [][ /\ Len(sendRequests') > Len(sendRequests)
            => SubSeq(sendRequests', 1, Len(sendRequests)) = sendRequests
        /\ DispatchSendData =>
             \A s \in SocketIds :
                (Registered(s) /\ sockets[s].sd > 0) =>
                    LET q == ForUuid(sendRequests, socketUuid(s))
                        k == FirstEnd(q)
                    IN  /\ sockets'[s].sendBuf = sockets[s].sendBuf \o SendsBefore(q)
                        /\ k <= Len(q) =>
                              /\ sockets'[s].st = "retired"
                              /\ sockets'[s].sd = 0
                              /\ ~Registered1(s)
                        /\ (k <= Len(q) /\ q[k].method = "Disconnect")
                              => sockets[s].sd \notin openFds'
                        /\ k > Len(q) =>
                              /\ sockets'[s].st = sockets[s].st
                              /\ sockets'[s].sd = sockets[s].sd
                              /\ Registered1(s)
      ]_vars

\* Send, Send, Disconnect for one connection were applied: both buffers are
\* on the closed connection in the order of their enqueue
C1_Witness ==
    \E s \in SocketIds :
        /\ sockets[s].st = "retired"
        /\ sockets[s].sd = 0
        /\ sockets[s].mode = "http"
        /\ Len(sockets[s].sendBuf) = 2
        /\ sockets[s].sendBuf[1][2] < sockets[s].sendBuf[2][2]
        /\ sendRequests = <<>>
        /\ \A t \in SocketIds \ {s} : sockets[t].st = "unborn"

\* C2: dispatching Send actions whose UUIDs are not in the registry, their
\* connections having been disconnected before, changes nothing: the
\* registry, the connections and the interest list stay as they were.
C2_StaleSendIsNoOp ==
    [][ ( /\ DispatchSendData
          /\ sendRequests # <<>>
          /\ \A i \in 1 .. Len(sendRequests) :
                /\ sendRequests[i].method = "Send"
                /\ ~MapContains(pollingSockets, sendRequests[i].uuid)
                /\ \E s \in SocketIds :
                      /\ socketUuid(s) = sendRequests[i].uuid
                      /\ sockets[s].st = "retired"
                      /\ sockets[s].sd = 0 )
        => UNCHANGED << pollingSockets, sockets, epollSet >>
      ]_vars

\* C3: an upgrade applied to a registered HTTP connection with descriptor D
\* leaves a new registered WebSocket connection on D with exactly the
\* handshake response in its outgoing buffer, D still open, and the old
\* connection out of the registry and of the interest list, retired and
\* without descriptor.
C3_UpgradeKeepsDescriptor ==
    [][ DispatchSendData =>
          \A s \in SocketIds :
             LET q == ForUuid(sendRequests, socketUuid(s))
                 k == FirstEnd(q)
                 D == sockets[s].sd
             IN  ( /\ Registered(s) /\ D > 0 /\ sockets[s].mode = "http"
                   /\ k <= Len(q) /\ q[k].method = "SwitchToWebSocket" )
                 => /\ \E ws \in SocketIds :
                          /\ sockets[ws].st = "unborn"
                          /\ sockets'[ws] = [st |-> "live", sd |-> D, mode |-> "ws",
                                             sendBuf |-> <<Handshake(ws)>>]
                          /\ Registered1(ws)
                          /\ [fd |-> D, ptr |-> ws, events |-> EvInOut] \in epollSet'
                    /\ D \in openFds'
                    /\ sockets'[s].st = "retired"
                    /\ sockets'[s].sd = 0
                    /\ \A e \in pollingSockets' : e[2] # s
                    /\ \A e \in epollSet' : e.ptr # s
      ]_vars

C3_Witness ==
    \E s, ws \in SocketIds :
        /\ sockets[s].st = "retired" /\ sockets[s].mode = "http" /\ sockets[s].sd = 0
        /\ sockets[ws].st = "live" /\ sockets[ws].mode = "ws"
        /\ sockets[ws].sendBuf = <<Handshake(ws)>>
        /\ sockets[ws].sd \in openFds
        /\ Registered(ws)
        /\ ~Registered(s)

\* C4: the registry never holds two entries of one UUID, nor two entries
\* whose connections have the same UUID, and a connection is filed under
\* its own UUID.
C4_OneConnectionPerUuid ==
    /\ \A e1, e2 \in pollingSockets : e1[1] = e2[1] => e1 = e2
    /\ \A e \in pollingSockets : e[2] # NULL => e[1] = socketUuid(e[2])

\* after an upgrade and a late Send for the old UUID
C4_Witness ==
    /\ Cardinality(pollingSockets) = 2
    /\ \E e \in pollingSockets : e[2] # NULL /\ sockets[e[2]].mode = "ws"
    /\ \E e \in pollingSockets : e[2] = NULL

\* C7 as stated: every queued action references a UUID that is still in the
\* registry with its connection.
C7_RemovedOnlyAfterQueueDrained ==
    \A i \in 1 .. Len(sendRequests) :
        MapValue(pollingSockets, sendRequests[i].uuid) # NULL

\* C7, amended: actions may still be queued for a UUID whose connection has
\* been retired or is out of the registry; dispatchSendData discards them:
\* it leaves such a connection, its descriptor and its entry of the interest
\* list as they were.
C7_StaleActionsDiscarded ==
    [][ DispatchSendData =>
          \A s \in SocketIds :
             ( /\ sockets[s].st # "unborn"
               /\ (sockets[s].st # "live" \/ ~Registered(s)) )
             => /\ sockets'[s] = sockets[s]
                /\ ~Registered1(s)
                /\ { e \in epollSet' : e.ptr = s } = { e \in epollSet : e.ptr = s }
                /\ (sockets[s].sd \in openFds) = (sockets[s].sd \in openFds')
      ]_vars

\* an action for the UUID of a retired connection has been dispatched: the
\* lookup left its mark in the registry, and the connection is as it was
\* when it was disconnected
C7_Witness ==
    \E s \in SocketIds :
        /\ sockets[s].st = "retired"
        /\ sockets[s].sd = 0
        /\ sockets[s].sendBuf = <<>>
        /\ <<socketUuid(s), NULL>> \in pollingSockets
        /\ sendRequests = <<>>
        /\ enqueued >= 2

\* C8: addPoll on a descriptor the interest list already holds (EEXIST)
\* reports success and leaves the connection in the interest list and in
\* the registry.
C8_AddPollIdempotent ==
    (last.op = "addPoll" /\ last.err = "EEXIST")
        => /\ last.ret = TRUE
           /\ Registered(last.sock)
           /\ \E e \in epollSet : e.fd = sockets[last.sock].sd

\* C9: deletePoll takes the connection out of the interest list first and
\* then out of the registry, and does not report failure when the
\* connection is not in the registry or the interest list has no such entry.
C9_DeletePollNotFoundIsNoError ==
    last.op = "deletePoll"
        => /\ last.err \in {"not registered", "ENOENT"} => last.ret = TRUE
           /\ \A e \in epollSet : e.ptr # last.sock
           /\ ~Registered(last.sock)

\* C5: a step of a worker thread (a run of a frame worker, or a request
\* worker handing over its outcome) changes neither the connections, nor the
\* open descriptors, nor the interest list, nor the registry; all a frame
\* worker leaves behind are Send and Disconnect actions for its own UUID at
\* the tail of the send queue; and a descriptor is closed only in a step of
\* the reactor.
C5_WorkersOnlyEnqueue ==
    [][ /\ (WorkerRun \/ SetSendData \/ SetDisconnect \/ SetSwitchToWebSocket)
             => UNCHANGED << sockets, openFds, epollSet, pollingSockets >>
        /\ \A w \in workers \ workers' :
               /\ UNCHANGED << sockets, openFds, epollSet, pollingSockets >>
               /\ Len(sendRequests') >= Len(sendRequests)
               /\ SubSeq(sendRequests', 1, Len(sendRequests)) = sendRequests
               /\ \A i \in (Len(sendRequests) + 1) .. Len(sendRequests') :
                     /\ sendRequests'[i].method \in {"Send", "Disconnect"}
                     /\ sendRequests'[i].uuid = w.uuid
        /\ (openFds \ openFds' # {}) => (DispatchSendData \/ DeferredDelete)
      ]_vars

\* a frame worker has run for a registered WebSocket connection and left a
\* Disconnect for it in the queue; the connection is untouched
C5_Witness ==
    /\ last.op = "run"
    /\ \E s \in SocketIds :
          /\ socketUuid(s) = last.sock.uuid
          /\ sockets[s].st = "live" /\ sockets[s].mode = "ws"
          /\ sockets[s].sd \in openFds
          /\ Registered(s)
          /\ \E i \in 1 .. Len(sendRequests) :
                /\ sendRequests[i].method = "Disconnect"
                /\ sendRequests[i].uuid = socketUuid(s)

BatchValid ==
    \A i \in (eventIterator + 1) .. numEvents :
        /\ events[i].ptr # NULL
        /\ sockets[events[i].ptr].st \in {"live", "retired"}

\* C6: a Disconnect applied to a registered connection takes it out of the
\* registry and of the interest list, closes its descriptor and leaves the
\* object retired, not destroyed; and no event still to be returned by
\* next() refers to a destroyed object.
C6_DisconnectDefersDestruction ==
    [][ /\ DispatchSendData =>
             \A s \in SocketIds :
                LET q == ForUuid(sendRequests, socketUuid(s))
                    k == FirstEnd(q)
                    D == sockets[s].sd
                IN  ( /\ Registered(s) /\ D > 0
                      /\ k <= Len(q) /\ q[k].method = "Disconnect" )
                    => /\ \A e \in pollingSockets' : e[2] # s
                       /\ \A e \in epollSet' : e.ptr # s /\ e.fd # D
                       /\ D \notin openFds'
                       /\ sockets'[s].sd = 0
                       /\ sockets'[s].st = "retired"
        /\ BatchValid'
      ]_vars

\* a connection was disconnected while an event of the current batch still
\* refers to it
C6_Witness ==
    \E i \in (eventIterator + 1) .. numEvents :
        /\ sockets[events[i].ptr].st = "retired"
        /\ sockets[events[i].ptr].sd = 0
        /\ ~Registered(events[i].ptr)

KnownOpcodes == {"Continuation", "TextFrame", "BinaryFrame", "Close", "Ping", "Pong"}

\* C10: the run of a frame worker whose opcode is none of the known ones
\* invokes no callback, enqueues nothing, and leaves the registry, the
\* connections and the interest list as they were.
C10_UnknownOpcodeDropped ==
    [][ \A w \in workers \ workers' :
            w.opcode \notin KnownOpcodes
                => /\ last'.cb = <<>>
                   /\ sendRequests' = sendRequests
                   /\ UNCHANGED << pollingSockets, sockets, epollSet, openFds >>
      ]_vars

\* the endpoint was found, the opcode was unknown, and the connection is
\* still registered with nothing queued for it
C10_Witness ==
    /\ last.op = "run"
    /\ last.ret
    /\ last.sock.opcode \notin KnownOpcodes
    /\ sendRequests = <<>>
    /\ \E s \in SocketIds :
          /\ socketUuid(s) = last.sock.uuid
          /\ sockets[s].st = "live" /\ sockets[s].mode = "ws"
          /\ Registered(s)
          /\ \E e \in epollSet : e.ptr = s /\ "EPOLLIN" \in e.events

\* C11: an upgrade whose request carries the id of a stored session starts a
\* frame worker for the new WebSocket connection with the opening event and
\* that session, and the run of that worker, its endpoint found, invokes
\* onOpen.
C11_OpenWithResolvedSession ==
    [][ /\ DispatchSendData =>
             \A s \in SocketIds :
                LET q == ForUuid(sendRequests, socketUuid(s))
                    k == FirstEnd(q)
                IN  ( /\ Registered(s) /\ sockets[s].sd > 0
                      /\ k <= Len(q) /\ q[k].method = "SwitchToWebSocket"
                      /\ findSession(q[k].header) # "" )
                    => \E ws \in SocketIds :
                          /\ sockets[ws].st = "unborn"
                          /\ TWebSocketWorker(socketUuid(ws), "Continuation",
                                              findSession(q[k].header)) \in workers'
        /\ \A w \in workers \ workers' :
               (w.opcode = "Continuation" /\ w.session # "" /\ last'.ret)
                   => last'.cb = <<"onOpen">>
      ]_vars

\* C12: the reactor never makes a call on the readiness mechanism (wait,
\* addPoll, deletePoll, or the modifyPoll of a dispatched Send) while its
\* readiness descriptor is invalid: a failure of epoll_create at construction
\* ends the process before any of them.
C12_NoCallOnInvalidEpollFd ==
    last.op \in {"wait", "addPoll", "deletePoll", "dispatchSendData"}
        => epollFd >= 0

\* C13: releaseAllPollingSockets, whatever was dispatched before it, leaves
\* the registry empty, and every connection that was registered has its
\* descriptor closed and is scheduled for destruction.
C13_ReleaseAllForceCloses ==
    [][ ReleaseAll =>
          /\ pollingSockets' = {}
          /\ ~crashed'
          /\ \A s \in SocketIds :
                Registered(s) => /\ sockets'[s].st = "retired"
                                 /\ sockets[s].sd \notin openFds'
      ]_vars

\* the items of payloadList that stand for a frame or a directive
Translated(list) ==
    SelectSeq(list, LAMBDA x : x \in {"String", "ByteArray", "Int:Close", "Int:Ping", "Int:Pong"})

FrameKind(x) ==
    CASE x = "String" -> "text" [] x = "ByteArray" -> "binary"
      [] x = "Int:Ping" -> "ping" [] x = "Int:Pong" -> "pong" [] OTHER -> "null"

\* C14: the run of a frame worker that invoked a callback appends to the send
\* queue one action per item of the endpoint's output list, in list order and
\* for the worker's own UUID: a Send of a text, binary, ping or pong frame
\* for such an item, a Disconnect for a Close directive; and after a Close
\* frame the last action is a Disconnect, behind what onClose produced.
C14_PayloadInListOrder ==
    [][ \A w \in workers \ workers' :
           (last'.ret /\ last'.cb # <<>>) =>
              LET list == Translated(last'.out)
                  new == SubSeq(sendRequests', Len(sendRequests) + 1, Len(sendRequests'))
              IN  /\ SubSeq(sendRequests', 1, Len(sendRequests)) = sendRequests
                  /\ Len(new) = Len(list)
                  /\ \A i \in 1 .. Len(new) :
                        /\ new[i].uuid = w.uuid
                        /\ new[i].method =
                              (IF list[i] = "Int:Close" THEN "Disconnect" ELSE "Send")
                        /\ new[i].buffer[1] = FrameKind(list[i])
                  /\ w.opcode = "Close" =>
                        /\ new # <<>>
                        /\ new[Len(new)].method = "Disconnect"
      ]_vars

\* a Close frame was received and onClose left a text frame on the list: the
\* queue ends with the Send of that frame, then the Disconnect
C14_Witness ==
    /\ last.op = "run"
    /\ last.sock.opcode = "Close"
    /\ last.out = <<"String", "Int:Close">>
    /\ Len(sendRequests) >= 2
    /\ LET n == Len(sendRequests)
       IN  /\ sendRequests[n - 1].method = "Send"
           /\ sendRequests[n - 1].buffer[1] = "text"
           /\ sendRequests[n - 1].uuid = last.sock.uuid
           /\ sendRequests[n].method = "Disconnect"
           /\ sendRequests[n].uuid = last.sock.uuid

\* C15: wait() leaves in numEvents the number of events it put in the array,
\* or 0 or a negative value with the array empty.  After a wait that returned
\* n > 0 the calls of next() have returned the connections of the first
\* events of the array, in order, each once and never more than n of them,
\* and next() returns null only once all n have been returned; canReceive
\* and canSend tell the flags of the event next() returned last.  After a
\* wait that returned 0 or less next() returns null, nothing has been
\* returned and canReceive and canSend are false.
C15_NextYieldsBatch ==
    /\ numEvents > 0 => numEvents = Len(events)
    /\ numEvents <= 0 =>
          /\ events = <<>>
          /\ yielded = <<>>
          /\ next = NULL
          /\ ~canReceive /\ ~canSend
    /\ Len(yielded) <= IF numEvents > 0 THEN numEvents ELSE 0
    /\ \A i \in 1 .. Len(yielded) : yielded[i] = events[i].ptr
    /\ \A i, j \in 1 .. Len(yielded) : yielded[i] = yielded[j] => i = j
    /\ (Len(yielded) < numEvents) => next = events[Len(yielded) + 1].ptr
    /\ (Len(yielded) >= numEvents) => next = NULL
    /\ (last.op = "next" /\ last.sock = NULL) => Len(yielded) >= numEvents
    /\ (last.op = "next" /\ last.sock # NULL) => last.sock = yielded[Len(yielded)]
    /\ yielded = <<>> => (~canReceive /\ ~canSend)
    /\ yielded # <<>> =>
          /\ canReceive = ("EPOLLIN" \in events[Len(yielded)].events)
          /\ canSend = ("EPOLLOUT" \in events[Len(yielded)].events)

\* a batch of two events was returned in full and next() then returned null
C15_Witness ==
    /\ numEvents = 2
    /\ Len(yielded) = 2
    /\ last.op = "next" /\ last.sock = NULL
    /\ canReceive

\* a wait failed or timed out after a batch had been walked, and next() was
\* called
C15_WitnessEmpty ==
    /\ numEvents <= 0
    /\ last.op = "next"
    /\ epollSet # {}

\* the connections in the registry that hold descriptor D, in socks
HoldersOf(socks, ps, D) ==
    { s \in SocketIds : <<socketUuid(s), s>> \in ps /\ socks[s].sd = D }

Handshakes(buf) == SelectSeq(buf, LAMBDA b : b[1] = "handshake")

\* C16: a descriptor held by a registered WebSocket connection is not held
\* by a registered HTTP connection after any step that leaves it open; and a
\* dispatch whose queue holds one or several SwitchToWebSocket for a
\* registered HTTP connection on descriptor D applies the first one only:
\* afterwards D is held by exactly one connection, a WebSocket connection
\* with exactly one handshake response in its outgoing buffer, and the UUID
\* of the HTTP connection no longer leads to a connection.
C16_UpgradeOnce ==
    [][ /\ \A D \in openFds \cap openFds' :
              (\E s \in HoldersOf(sockets, pollingSockets, D) : sockets[s].mode = "ws")
                 => \A s \in HoldersOf(sockets', pollingSockets', D) : sockets'[s].mode = "ws"
        /\ DispatchSendData =>
             \A s \in SocketIds :
                LET q == ForUuid(sendRequests, socketUuid(s))
                    k == FirstEnd(q)
                    D == sockets[s].sd
                    W == HoldersOf(sockets', pollingSockets', D)
                IN  ( /\ Registered(s) /\ D > 0 /\ sockets[s].mode = "http"
                      /\ k <= Len(q) /\ q[k].method = "SwitchToWebSocket" )
                    => /\ Cardinality(W) = 1
                       /\ \A w \in W : /\ sockets'[w].mode = "ws"
                                        /\ Len(Handshakes(sockets'[w].sendBuf)) = 1
                       /\ \A t \in SocketIds : sockets'[t].sd = D => t \in W
                       /\ MapValue(pollingSockets', socketUuid(s)) = NULL
      ]_vars

\* two SwitchToWebSocket for one HTTP connection were dispatched together:
\* one WebSocket connection holds the descriptor, with one handshake
C16_Witness ==
    /\ last.op = "dispatchSendData"
    /\ Len(last.out) = 2
    /\ last.out[1].method = "SwitchToWebSocket"
    /\ last.out[2].method = "SwitchToWebSocket"
    /\ last.out[1].uuid = last.out[2].uuid
    /\ \E s, ws \in SocketIds :
          /\ socketUuid(s) = last.out[1].uuid
          /\ sockets[s].st = "retired" /\ sockets[s].mode = "http"
          /\ sockets[ws].st = "live" /\ sockets[ws].mode = "ws"
          /\ sockets[ws].sendBuf = <<Handshake(ws)>>
          /\ Registered(ws)
          /\ <<socketUuid(s), NULL>> \in pollingSockets

\* the buffers of the actions of q, in queue order
Buffers(q) == [i \in 1 .. Len(q) |-> q[i].buffer]

\* C17: a dispatch whose queue holds only Send actions for UUIDs that are
\* registered with a valid descriptor appends, for each connection, the
\* buffers of its actions to the tail of its outgoing buffer in queue order,
\* and leaves each connection that got one in the interest list with
\* EPOLLIN | EPOLLOUT | EPOLLET; the connections that got none keep their
\* outgoing buffer and their interest, and the registry, the descriptors
\* and every other field of every connection stay as they were.
C17_SendAppendsAndRearms ==
    [][ ( /\ DispatchSendData
          /\ sendRequests # <<>>
          /\ \A i \in 1 .. Len(sendRequests) :
                /\ sendRequests[i].method = "Send"
                /\ \E s \in SocketIds :
                      /\ socketUuid(s) = sendRequests[i].uuid
                      /\ Registered(s)
                      /\ sockets[s].sd > 0 )
        => /\ pollingSockets' = pollingSockets
           /\ openFds' = openFds
           /\ \A s \in SocketIds :
                 LET q == ForUuid(sendRequests, socketUuid(s))
                 IN  /\ sockets'[s] = [sockets[s] EXCEPT !.sendBuf = @ \o Buffers(q)]
                     /\ q # <<>> =>
                           { e \in epollSet' : e.ptr = s \/ e.fd = sockets[s].sd }
                              = { [fd |-> sockets[s].sd, ptr |-> s, events |-> EvInOut] }
                     /\ q = <<>> =>
                           { e \in epollSet' : e.ptr = s } = { e \in epollSet : e.ptr = s }
      ]_vars

\* two connections are registered and a Send for the first was dispatched:
\* its buffer is in place and it is armed for writing, the second is armed
\* for reading only, with nothing to send
C17_Witness ==
    /\ last.op = "dispatchSendData"
    /\ Len(last.out) = 1
    /\ last.out[1].method = "Send"
    /\ \E s, o \in SocketIds :
          /\ s # o
          /\ socketUuid(s) = last.out[1].uuid
          /\ Registered(s) /\ Registered(o)
          /\ sockets[s].sendBuf = <<last.out[1].buffer>>
          /\ [fd |-> sockets[s].sd, ptr |-> s, events |-> EvInOut] \in epollSet
          /\ sockets[o].sendBuf = <<>>
          /\ [fd |-> sockets[o].sd, ptr |-> o, events |-> EvIn] \in epollSet

\* the TSendBuffer objects the queued actions carry
Queued == { sendRequests[i].buffer : i \in 1 .. Len(sendRequests) }

\* the TSendBuffer objects in the outgoing buffer of a connection that has
\* not been destroyed
Owned ==
    UNION { { sockets[s].sendBuf[i] : i \in 1 .. Len(sockets[s].sendBuf) }
            : s \in { x \in SocketIds : sockets[x].st \in {"live", "retired"} } }

\* C18: every send buffer that exists is carried by a queued action or is in
\* the outgoing buffer of a connection; a buffer that a dequeued action
\* carried and no connection took has been released.
C18_NoBufferLeftUnowned ==
    heap \subseteq (Queued \cup Owned)

\* C19: every entry of the registry holds a connection, one that exists and
\* is in the interest list with its descriptor.
C19_RegistryEntriesHaveConnection ==
    \A e \in pollingSockets :
        /\ e[2] # NULL
        /\ sockets[e[2]].st = "live"
        /\ \E x \in epollSet : x.ptr = e[2] /\ x.fd = sockets[e[2]].sd

\* C20: no two connections of the registry hold the same descriptor; a
\* connection that an upgrade replaced is out of the registry and holds no
\* descriptor as long as it exists; and no step closes the descriptor of a
\* connection that is in the registry before and after the step, whatever
\* retired connection is destroyed in it.
C20_DescriptorHasOneOwner ==
    [][ /\ \A s, o \in SocketIds :
              ( /\ Registered1(s) /\ Registered1(o)
                /\ sockets'[s].sd > 0
                /\ sockets'[s].sd = sockets'[o].sd ) => s = o
        /\ \A s \in SocketIds :
              ( /\ sockets'[s].st \in {"retired", "destroyed"}
                /\ sockets'[s].mode = "http"
                /\ \E ws \in SocketIds : Registered1(ws) /\ sockets'[ws].mode = "ws" )
              => \A ws \in SocketIds :
                    (Registered1(ws) /\ sockets'[ws].sd > 0)
                        => sockets'[s].sd # sockets'[ws].sd
        /\ \A s \in SocketIds :
              ( /\ Registered(s) /\ Registered1(s)
                /\ sockets[s].sd > 0 /\ sockets[s].sd \in openFds
                /\ sockets'[s].sd = sockets[s].sd )
              => sockets[s].sd \in openFds'
      ]_vars

\* the HTTP connection an upgrade replaced has been destroyed, and the
\* WebSocket connection is registered on the descriptor, still open
C20_Witness ==
    \E s, ws \in SocketIds :
        /\ sockets[s].st = "destroyed" /\ sockets[s].mode = "http"
        /\ sockets[ws].st = "live" /\ sockets[ws].mode = "ws"
        /\ Registered(ws)
        /\ sockets[ws].sd \in openFds
        /\ \E e \in epollSet : e.ptr = ws /\ e.fd = sockets[ws].sd

====
